---- MODULE Spec2Model ----
\* The foreign-function boundary of pg-parser (bindings/parse.c,
\* bindings/protobuf-json.c and the deparse-node patches), modelled as a state
\* machine over the C heap.  A call of an exported function is one action; it
\* threads a "machine" record (the heap blocks the call has outstanding and
\* the trace of the memory events it performed) through the statements of the
\* function in source order.
EXTENDS Integers, Sequences, FiniteSets, TLC

VARIABLES call, input, heap, log, ctx, result, phase

vars == <<call, input, heap, log, ctx, result, phase>>

\* ------------------------------------------------------------------ bounds
MaxSub == 1        \* sub-allocations hanging off an unpacked protobuf-c message
MaxTokens == 2     \* tokens in a scanned token stream
MaxOff == 1        \* largest byte offset of a token

\* ------------------------------------------------------------- the C heap
\* A pointer is a pair <<allocation site, index>>; NULL and the value of an
\* uninitialised pointer field that is not NULL (Garbage) are pairs too.
B(site) == <<site, 0>>
NULL == <<"NULL", 0>>
Garbage == <<"GARBAGE", 0>>
CTX == <<"memory context", 0>>

\* What a read of a pointer field of a freshly malloc'ed struct may yield.
Uninit == {NULL, Garbage}

Machine0 == [heap |-> {}, log |-> <<>>, ctx |-> {}]

Malloc(m, b) ==
    [m EXCEPT !.heap = @ \cup {b}, !.log = Append(@, <<"malloc", b>>)]

\* free(p): free(NULL) does nothing; the event is logged whatever p is, so a
\* double free or a free of a wild pointer stays visible in the trace.
Free(m, p) ==
    IF p = NULL THEN m
    ELSE [m EXCEPT !.heap = @ \ {p}, !.log = Append(@, <<"free", p>>)]

Read(m, p) == [m EXCEPT !.log = Append(@, <<"read", p>>)]

Event(m, kind, p) == [m EXCEPT !.log = Append(@, <<kind, p>>)]

RECURSIVE MallocAll(_, _, _)
MallocAll(m, site, n) ==
    IF n = 0 THEN m ELSE Malloc(MallocAll(m, site, n - 1), <<site, n>>)

RECURSIVE FreeAll(_, _, _)
FreeAll(m, site, n) ==
    IF n = 0 THEN m ELSE Free(FreeAll(m, site, n - 1), <<site, n>>)

Count(s, e) == Cardinality({i \in 1..Len(s) : s[i] = e})

\* Index of the first occurrence of e in s, 0 when there is none.
FirstIndex(s, e) ==
    IF \E i \in 1..Len(s) : s[i] = e
    THEN CHOOSE i \in 1..Len(s) : s[i] = e /\ \A j \in 1..(i - 1) : s[j] # e
    ELSE 0

\* --------------------------------------------------------- PgQueryError
\* The fields of a PgQueryError that own memory.
NoErrorFields == [message |-> NULL, funcname |-> NULL, filename |-> NULL, context |-> NULL]

\* An error built by libpg_query itself: message, funcname and filename are
\* separate heap strings.
EngineErrorFields(site) ==
    [message |-> B(site \o ".message"), funcname |-> B(site \o ".funcname"),
     filename |-> B(site \o ".filename"), context |-> NULL]

EngineError(m, site) ==
    Malloc(Malloc(Malloc(Malloc(m, B(site)), B(site \o ".message")),
                  B(site \o ".funcname")), B(site \o ".filename"))

pg_query_free_error(m, error, fields) ==
    Free(Free(Free(Free(Free(m, fields.message), fields.funcname),
                   fields.filename), fields.context), error)

\* ------------------------------------------------- the protobuf-c codecs
\* pg_query__*__unpack: one block for the message, n more for its repeated
\* fields, strings and sub-messages.
Unpack(m, site, n) == MallocAll(Malloc(m, B(site)), site, n)

\* pg_query__*__free_unpacked releases all of them.
FreeUnpacked(m, site, n) == Free(FreeAll(m, site, n), B(site))

\* ------------------------------------------------------ protobuf-json.c
\* in: unpackOk, nSub, codec ("ok" | "fail" | "fail_null"), u_json_string,
\*     u_error (what the malloc'ed result struct happens to hold).
protobuf_to_json(m, protobuf, in) ==
    LET self == "protobuf_to_json"
        m1 == Malloc(m, B(self \o ".result"))
        r0 == [json_string |-> in.u_json_string, error |-> in.u_error]
        m2 == Read(m1, protobuf)
    IN  IF ~in.unpackOk
        THEN [m |-> Malloc(m2, B(self \o ".strdup")),
              r |-> [r0 EXCEPT !.error = B(self \o ".strdup")]]
        ELSE
          LET m3 == Unpack(m2, self \o ".parse_result", in.nSub)
              m4 == Malloc(m3, B(self \o ".error"))
              \* protobuf2json_string: allocates *json_string on success
              m5 == IF in.codec = "ok" THEN Malloc(m4, B(self \o ".json_string")) ELSE m4
              r1 == CASE in.codec = "ok" -> [r0 EXCEPT !.json_string = B(self \o ".json_string")]
                      [] in.codec = "fail_null" -> [r0 EXCEPT !.json_string = NULL]
                      [] OTHER -> r0
              m6 == Free(m5, B(self \o ".parse_result"))
          IN  IF in.codec # "ok"
              THEN [m |-> m6, r |-> [r1 EXCEPT !.error = B(self \o ".error")]]
              ELSE [m |-> Free(m6, B(self \o ".error")), r |-> r1]

\* in: ret ("ok" | "fail": json2protobuf_string's return code), nSub,
\*     reparse (whether the diagnostic protobuf2json_string call produced a
\*     string), u_data, u_error.
json_to_protobuf(m, in) ==
    LET self == "json_to_protobuf"
        m1 == Malloc(m, B(self \o ".result"))
        r0 == [data |-> in.u_data, error |-> in.u_error]
        m2 == Malloc(m1, B(self \o ".error"))
    IN  IF in.ret # "ok"
        THEN [m |-> m2, r |-> [r0 EXCEPT !.error = B(self \o ".error")]]
        ELSE
          LET \* json2protobuf_string built *protobuf_message
              m3 == Unpack(m2, self \o ".protobuf_message", in.nSub)
              m4 == Free(m3, B(self \o ".error"))
              m5 == Malloc(m4, B(self \o ".error2"))
              m6 == IF in.reparse THEN Malloc(m5, B(self \o ".json_string_reparsed")) ELSE m5
              m7 == Malloc(m6, B(self \o ".protobuf.data"))
          IN  [m |-> m7, r |-> [r0 EXCEPT !.data = B(self \o ".protobuf.data")]]

free_protobuf_to_json_result(m, r) ==
    LET m1 == IF r.json_string # NULL THEN Free(m, r.json_string) ELSE m
        m2 == IF r.error # NULL THEN Free(m1, r.error) ELSE m1
    IN  Free(m2, B("protobuf_to_json.result"))

free_json_to_protobuf_result(m, r) ==
    LET m1 == IF r.data # NULL THEN Free(m, r.data) ELSE m
        m2 == IF r.error # NULL THEN Free(m1, r.error) ELSE m1
    IN  Free(m2, B("json_to_protobuf.result"))

\* -------------------------------------------------------------- parse.c
\* pg_query_parse_protobuf: the engine returns the tree buffer, the captured
\* stderr bytes and, on a syntax error, a PgQueryError.
pg_query_parse_protobuf(m, in) ==
    LET data == IF in.hasData THEN B("parse_tree.data") ELSE NULL
        serr == IF in.hasStderr THEN B("stderr_buffer") ELSE NULL
        m1 == IF in.hasData THEN Malloc(m, data) ELSE m
        m2 == IF in.hasStderr THEN Malloc(m1, serr) ELSE m1
        m3 == IF in.engineErr THEN EngineError(m2, "engine.error") ELSE m2
    IN  [m |-> Event(m3, "engine", NULL),
         data |-> data, stderr_buffer |-> serr,
         error |-> IF in.engineErr THEN B("engine.error") ELSE NULL]

\* parse_sql with the release of the tree buffer left to the success path: the
\* early return after a failed conversion skips it.
parse_sql_skips_release(m, in) ==
    LET m1 == Malloc(m, B("parse_sql.protobufResult"))
        e == pg_query_parse_protobuf(m1, in)
        m2 == Malloc(e.m, B("parse_sql.result"))
    IN  IF e.error # NULL
        THEN [m |-> Free(Free(m2, e.data), B("parse_sql.protobufResult")),
              r |-> [parse_tree |-> NULL, error |-> e.error,
                     errf |-> EngineErrorFields("engine.error"),
                     stderr_buffer |-> e.stderr_buffer]]
        ELSE
          LET j == protobuf_to_json(m2, e.data, in)
              m3 == j.m
          IN  IF j.r.json_string = NULL
              THEN
                LET m4 == IF j.r.error # NULL THEN Malloc(m3, B("parse_sql.error")) ELSE m3
                    m5 == Free(Free(m4, B("protobuf_to_json.result")), B("parse_sql.protobufResult"))
                IN  [m |-> m5,
                     r |-> [parse_tree |-> NULL,
                            error |-> IF j.r.error # NULL THEN B("parse_sql.error") ELSE NULL,
                            errf |-> [NoErrorFields EXCEPT !.message = j.r.error],
                            stderr_buffer |-> e.stderr_buffer]]
              ELSE [m |-> Free(Free(Free(m3, e.data), B("protobuf_to_json.result")),
                               B("parse_sql.protobufResult")),
                    r |-> [parse_tree |-> j.r.json_string, error |-> NULL,
                           errf |-> NoErrorFields,
                           stderr_buffer |-> e.stderr_buffer]]

parse_sql(m, in) ==
    LET m1 == Malloc(m, B("parse_sql.protobufResult"))
        e == pg_query_parse_protobuf(m1, in)
        m2 == Malloc(e.m, B("parse_sql.result"))
    IN  IF e.error # NULL
        THEN [m |-> Free(Free(m2, e.data), B("parse_sql.protobufResult")),
              r |-> [parse_tree |-> NULL, error |-> e.error,
                     errf |-> EngineErrorFields("engine.error"),
                     stderr_buffer |-> e.stderr_buffer]]
        ELSE
          LET j == protobuf_to_json(m2, e.data, in)
              m3 == Free(j.m, e.data)
          IN  IF j.r.json_string = NULL
              THEN
                LET m4 == IF j.r.error # NULL THEN Malloc(m3, B("parse_sql.error")) ELSE m3
                    m5 == Free(Free(m4, B("protobuf_to_json.result")), B("parse_sql.protobufResult"))
                IN  [m |-> m5,
                     r |-> [parse_tree |-> NULL,
                            error |-> IF j.r.error # NULL THEN B("parse_sql.error") ELSE NULL,
                            errf |-> [NoErrorFields EXCEPT !.message = j.r.error],
                            stderr_buffer |-> e.stderr_buffer]]
              ELSE [m |-> Free(Free(m3, B("protobuf_to_json.result")), B("parse_sql.protobufResult")),
                    r |-> [parse_tree |-> j.r.json_string, error |-> NULL,
                           errf |-> NoErrorFields,
                           stderr_buffer |-> e.stderr_buffer]]

free_parse_result(m, r) ==
    LET m1 == IF r.error # NULL THEN pg_query_free_error(m, r.error, r.errf) ELSE m
    IN  Free(Free(Free(m1, r.parse_tree), r.stderr_buffer), B("parse_sql.result"))

\* pg_query_deparse_protobuf: the engine renders the tree buffer to SQL text
\* or returns a PgQueryError.
pg_query_deparse_protobuf(m, protobuf, in) ==
    LET m1 == Event(m, "engine", protobuf)
    IN  IF in.engineErr
        THEN [m |-> EngineError(m1, "engine.error"),
              r |-> [query |-> NULL, error |-> B("engine.error"),
                     errf |-> EngineErrorFields("engine.error")]]
        ELSE [m |-> Malloc(m1, B("engine.query")),
              r |-> [query |-> B("engine.query"), error |-> NULL, errf |-> NoErrorFields]]

\* deparse_sql without the check of the converter's error: the engine is
\* handed whatever the converter left in protobuf.
deparse_sql_unchecked(m, in) ==
    LET p == json_to_protobuf(m, in)
        m1 == Malloc(p.m, B("deparse_sql.result"))
        d == pg_query_deparse_protobuf(m1, p.r.data, in)
    IN  [m |-> Free(Free(d.m, p.r.data), B("json_to_protobuf.result")),
         r |-> d.r]

deparse_sql(m, in) ==
    LET p == json_to_protobuf(m, in)
    IN  IF p.r.error # NULL
        THEN
          LET m1 == Malloc(Malloc(p.m, B("deparse_sql.result")), B("deparse_sql.error"))
          IN  [m |-> Free(m1, B("json_to_protobuf.result")),
               r |-> [query |-> NULL, error |-> B("deparse_sql.error"),
                      errf |-> [NoErrorFields EXCEPT !.message = p.r.error]]]
        ELSE
          LET m1 == Malloc(p.m, B("deparse_sql.result"))
              d == pg_query_deparse_protobuf(m1, p.r.data, in)
          IN  [m |-> Free(Free(d.m, p.r.data), B("json_to_protobuf.result")),
               r |-> d.r]

pg_query_free_deparse_result(m, r) ==
    LET m1 == IF r.error # NULL THEN pg_query_free_error(m, r.error, r.errf) ELSE m
    IN  Free(m1, r.query)

free_deparse_result(m, r) ==
    Free(pg_query_free_deparse_result(m, r), B("deparse_sql.result"))

\* --------------------------------------------------------------- scanner
\* pg_query__token__descriptor: the static name table of the Token enum
\* (NUL = 0, IDENT = 258); 1 is a code the table does not hold.
TokenCodes == {0, 1, 258}

TokenNames == (0 :> "NUL") @@ (258 :> "IDENT")

protobuf_c_enum_descriptor_get_value(code) ==
    IF code \in DOMAIN TokenNames THEN <<TokenNames[code]>> ELSE <<>>

UninitToken == [start |-> -1, end |-> -1, name |-> "", keyword_kind |-> -1]

\* pg_query_scan: the tokenizer returns the packed token stream, the captured
\* stderr bytes and, on a lexer error, a PgQueryError.
pg_query_scan(m, in) ==
    LET data == IF in.hasData THEN B("pbuf.data") ELSE NULL
        serr == IF in.hasStderr THEN B("stderr_buffer") ELSE NULL
        m1 == IF in.hasData THEN Malloc(m, data) ELSE m
        m2 == IF in.hasStderr THEN Malloc(m1, serr) ELSE m1
        m3 == IF in.scanErr THEN EngineError(m2, "engine.error") ELSE m2
    IN  [m |-> Event(m3, "engine", NULL),
         data |-> data, stderr_buffer |-> serr,
         error |-> IF in.scanErr THEN B("engine.error") ELSE NULL]

\* The loop of scan_sql stopping one token early.
RECURSIVE ScanLoop_off_by_one(_, _, _)
ScanLoop_off_by_one(scan_tokens, i, out) ==
    IF i < Len(scan_tokens) - 1
    THEN LET t == scan_tokens[i + 1]
             token_val == protobuf_c_enum_descriptor_get_value(t.token)
         IN  ScanLoop_off_by_one(scan_tokens, i + 1,
                 [out EXCEPT ![i + 1] =
                     [start |-> t.start, end |-> t.end,
                      name |-> IF token_val # <<>> THEN token_val[1] ELSE "UNKNOWN",
                      keyword_kind |-> t.keyword_kind]])
    ELSE out

\* The for loop of scan_sql: out[i] is result->tokens[i] (out is 1-based).
RECURSIVE ScanLoop(_, _, _)
ScanLoop(scan_tokens, i, out) ==
    IF i < Len(scan_tokens)
    THEN LET t == scan_tokens[i + 1]
             token_val == protobuf_c_enum_descriptor_get_value(t.token)
         IN  ScanLoop(scan_tokens, i + 1,
                 [out EXCEPT ![i + 1] =
                     [start |-> t.start, end |-> t.end,
                      name |-> IF token_val # <<>> THEN token_val[1] ELSE "UNKNOWN",
                      keyword_kind |-> t.keyword_kind]])
    ELSE out

\* Blocks of an unpacked ScanResult besides the message itself: the token
\* array and one sub-message per token.
ScanSub(n) == IF n = 0 THEN 0 ELSE n + 1

\* A calloc'ed PgScanResult; toks is what the tokens array holds.
PgScanResult0 ==
    [n_tokens |-> 0, tokens |-> NULL, toks |-> <<>>, error |-> NULL, errf |-> NoErrorFields]

scan_sql(m, in) ==
    LET m1 == Malloc(m, B("scan_sql.result"))
        r0 == PgScanResult0
        s == pg_query_scan(m1, in)
    IN  IF s.error # NULL
        THEN [m |-> Free(Free(s.m, s.data), s.stderr_buffer),
              r |-> [r0 EXCEPT !.error = s.error,
                               !.errf = EngineErrorFields("engine.error")]]
        ELSE
          LET n == Len(in.tokens)
              m2 == Read(s.m, s.data)
              m3 == IF in.unpackOk THEN Unpack(m2, "scan_sql.scan", ScanSub(n)) ELSE m2
              m4 == Free(Free(m3, s.data), s.stderr_buffer)
          IN  IF ~in.unpackOk
              THEN [m |-> Malloc(Malloc(m4, B("scan_sql.error")), B("scan_sql.error.message")),
                    r |-> [r0 EXCEPT !.error = B("scan_sql.error"),
                                     !.errf = [NoErrorFields EXCEPT
                                                  !.message = B("scan_sql.error.message")]]]
              ELSE
                LET tokens == IF n = 0 /\ in.zeroNull THEN NULL ELSE B("scan_sql.tokens")
                    m5 == IF tokens = NULL THEN m4 ELSE Malloc(m4, tokens)
                    out == ScanLoop(in.tokens, 0, [k \in 1..n |-> UninitToken])
                IN  [m |-> FreeUnpacked(m5, "scan_sql.scan", ScanSub(n)),
                     r |-> [r0 EXCEPT !.n_tokens = n, !.tokens = tokens, !.toks = out]]

free_scan_result(m, r) ==
    LET m1 == IF r.error # NULL THEN pg_query_free_error(m, r.error, r.errf) ELSE m
    IN  Free(Free(m1, r.tokens), B("scan_sql.result"))

\* ---------------------------------------------------------- deparseNode
\* A Node is [tag, val, name, text]: val and name are the ResTarget fields
\* (<<>> is a NULL pointer, <<x>> a pointer to x); text is what the engine's
\* own renderer prints for the node.
NullP == <<>>

ClauseTags ==
    {"T_RangeVar", "T_TypeName", "T_ColumnDef", "T_SortBy", "T_WindowDef",
     "T_Alias", "T_JoinExpr", "T_CommonTableExpr", "T_WithClause",
     "T_RangeSubselect", "T_RangeFunction", "T_OnConflictClause",
     "T_Constraint", "T_IndexElem", "T_FunctionParameter", "T_LockingClause",
     "T_GroupingSet", "T_RoleSpec", "T_RangeTableSample", "T_RangeTableFunc"}

ExprTags ==
    {"T_ColumnRef", "T_A_Const", "T_ParamRef", "T_A_Indirection", "T_CaseExpr",
     "T_SubLink", "T_A_ArrayExpr", "T_RowExpr", "T_GroupingFunc", "T_TypeCast",
     "T_CollateClause", "T_A_Expr", "T_BoolExpr", "T_NullTest", "T_BooleanTest",
     "T_SetToDefault", "T_FuncCall", "T_SQLValueFunction", "T_MinMaxExpr",
     "T_CoalesceExpr", "T_XmlExpr", "T_XmlSerialize", "T_JsonIsPredicate",
     "T_MergeSupportFunc", "T_JsonParseExpr", "T_JsonScalarExpr",
     "T_JsonSerializeExpr", "T_JsonFuncExpr", "T_JsonObjectAgg",
     "T_JsonArrayAgg", "T_JsonObjectConstructor", "T_JsonArrayConstructor",
     "T_JsonArrayQueryConstructor"}

\* Statement kinds deparseStmt renders; for any other kind it raises.
StmtTags == {"T_SelectStmt", "T_InsertStmt"}

\* Expressions the engine's deparseExpr cannot render (it raises).
BadExprs == {"?"}

\* quote_identifier: the name itself when it is a plain lower-case
\* non-keyword identifier, the name in double quotes otherwise.
SafeIdents == {"x"}

quote_identifier(name) ==
    IF name \in SafeIdents THEN name ELSE "\"" \o name \o "\""

Raise(str, msg) == [raised |-> TRUE, msg |-> msg, str |-> str]

Done(str) == [raised |-> FALSE, msg |-> "", str |-> str]

appendStringInfoString(d, s) == IF d.raised THEN d ELSE Done(d.str \o s)

deparseExpr(str, text) ==
    IF text \in BadExprs
    THEN Raise(str, "deparse: unpermitted node type in a_expr/b_expr/c_expr")
    ELSE Done(str \o text)

deparseStmt(str, node) ==
    IF node.tag \in StmtTags
    THEN Done(str \o node.text)
    ELSE Raise(str, "deparse: unsupported top-level node type")

\* deparseNode without the branch for a ResTarget that has a name and no value.
deparseNode_no_name_only(str, node) ==
    IF node.tag = "NULL" THEN Raise(str, "deparseNode: NULL node")
    ELSE
      CASE node.tag = "T_ResTarget" ->
             IF node.val # NullP
             THEN LET d == deparseExpr(str, node.val[1])
                  IN  IF node.name # NullP
                      THEN appendStringInfoString(
                               appendStringInfoString(d, " AS "),
                               quote_identifier(node.name[1]))
                      ELSE d
             ELSE Done(str)
        [] node.tag \in ClauseTags -> Done(str \o node.text)
        [] node.tag \in ExprTags -> deparseExpr(str, node.text)
        [] OTHER -> deparseStmt(str, node)

deparseNode(str, node) ==
    IF node.tag = "NULL" THEN Raise(str, "deparseNode: NULL node")
    ELSE
      CASE node.tag = "T_ResTarget" ->
             IF node.val # NullP
             THEN LET d == deparseExpr(str, node.val[1])
                  IN  IF node.name # NullP
                      THEN appendStringInfoString(
                               appendStringInfoString(d, " AS "),
                               quote_identifier(node.name[1]))
                      ELSE d
             ELSE IF node.name # NullP
                  THEN appendStringInfoString(Done(str), quote_identifier(node.name[1]))
                  ELSE Done(str)
        [] node.tag \in ClauseTags -> Done(str \o node.text)
        [] node.tag \in ExprTags -> deparseExpr(str, node.text)
        [] OTHER -> deparseStmt(str, node)

\* ------------------------------------------- pg_query_deparse_node_protobuf
Palloc(m, b) == [m EXCEPT !.ctx = @ \cup {b}, !.log = Append(@, <<"palloc", b>>)]

Strdup(m, dst, src) == Malloc(Read(m, src), dst)

\* pg_query_protobuf_to_node: raises when the buffer does not unpack.
pg_query_protobuf_to_node(m, in) ==
    LET m1 == Read(m, B("node_protobuf.data"))
    IN  IF ~in.unpackOk
        THEN [m |-> m1, raised |-> TRUE,
              msg |-> "pg_query_protobuf_to_node: failed to unpack protobuf"]
        ELSE
          LET m2 == Unpack(m1, "proto_node", in.nSub)
              m3 == IF in.node.tag = "NULL" THEN m2 ELSE Palloc(m2, B("node"))
          IN  [m |-> FreeUnpacked(m3, "proto_node", in.nSub), raised |-> FALSE, msg |-> ""]

NoResult == [query |-> NULL, error |-> NULL, errf |-> NoErrorFields, text |-> "", message |-> ""]

\* A PG_CATCH that flushes the error state without building the PgQueryError.
DeparseNodeCatch_swallows(m, msg) ==
    LET m1 == Event(m, "MemoryContextSwitchTo", CTX)
    IN  [m |-> Event(m1, "FlushErrorState", CTX), r |-> NoResult]

\* PG_CATCH of pg_query_deparse_node_protobuf
DeparseNodeCatch(m, msg) ==
    LET m1 == Event(m, "MemoryContextSwitchTo", CTX)
        m2 == Palloc(Palloc(Palloc(Palloc(m1, B("error_data")), B("error_data.message")),
                            B("error_data.filename")), B("error_data.funcname"))
        m3 == Malloc(m2, B("deparse_node.error"))
        m4 == Strdup(m3, B("deparse_node.error.message"), B("error_data.message"))
        m5 == Strdup(m4, B("deparse_node.error.filename"), B("error_data.filename"))
        m6 == Strdup(m5, B("deparse_node.error.funcname"), B("error_data.funcname"))
    IN  [m |-> Event(m6, "FlushErrorState", CTX),
         r |-> [NoResult EXCEPT
                  !.error = B("deparse_node.error"),
                  !.errf = [message |-> B("deparse_node.error.message"),
                            funcname |-> B("deparse_node.error.funcname"),
                            filename |-> B("deparse_node.error.filename"),
                            context |-> NULL],
                  !.message = msg]]

\* A PG_TRY that returns str.data itself instead of a strdup of it.
DeparseNodeTry_no_copy(m, in) ==
    LET n == pg_query_protobuf_to_node(m, in)
    IN  IF n.raised THEN DeparseNodeCatch(n.m, n.msg)
        ELSE
          LET m1 == Palloc(n.m, B("str.data"))
              d == deparseNode("", in.node)
          IN  IF d.raised THEN DeparseNodeCatch(m1, d.msg)
              ELSE [m |-> m1,
                    r |-> [NoResult EXCEPT !.query = B("str.data"), !.text = d.str]]

\* PG_TRY of pg_query_deparse_node_protobuf, then PG_CATCH when it raised
DeparseNodeTry(m, in) ==
    LET n == pg_query_protobuf_to_node(m, in)
    IN  IF n.raised THEN DeparseNodeCatch(n.m, n.msg)
        ELSE
          LET m1 == Palloc(n.m, B("str.data"))
              d == deparseNode("", in.node)
          IN  IF d.raised THEN DeparseNodeCatch(m1, d.msg)
              ELSE [m |-> Strdup(m1, B("deparse_node.query"), B("str.data")),
                    r |-> [NoResult EXCEPT !.query = B("deparse_node.query"),
                                           !.text = d.str]]

pg_query_deparse_node_protobuf(m, in) ==
    LET m1 == Event(m, "enter", CTX)
        t == DeparseNodeTry(m1, in)
    IN  [m |-> Event(t.m, "exit", CTX), r |-> t.r]

\* ----------------------------------------------------------------- inputs
SeqUpTo(S, n) == UNION {[1..k -> S] : k \in 0..n}

BridgeOutcomes == {"ok", "fail", "fail_null"}

ProtobufToJsonInputs ==
    [unpackOk : BOOLEAN, nSub : 0..MaxSub, codec : BridgeOutcomes,
     u_json_string : Uninit, u_error : Uninit]

JsonToProtobufInputs ==
    [ret : {"ok", "fail"}, nSub : 0..MaxSub, reparse : BOOLEAN,
     u_data : Uninit, u_error : Uninit]

\* The engine always returns a tree buffer when it reports no error.
ParseInputs ==
    {in \in [engineErr : BOOLEAN, hasData : BOOLEAN, hasStderr : BOOLEAN,
             unpackOk : BOOLEAN, nSub : 0..MaxSub, codec : BridgeOutcomes,
             u_json_string : Uninit, u_error : Uninit] :
        ~in.engineErr => in.hasData}

DeparseInputs ==
    [ret : {"ok", "fail"}, nSub : 0..MaxSub, reparse : BOOLEAN,
     u_data : Uninit, u_error : Uninit, engineErr : BOOLEAN]

TokenInputs ==
    {t \in [start : 0..MaxOff, end : 0..MaxOff, token : TokenCodes, keyword_kind : 0..1] :
        t.start <= t.end}

ScanInputs ==
    {in \in [scanErr : BOOLEAN, hasData : BOOLEAN, hasStderr : BOOLEAN,
             unpackOk : BOOLEAN, zeroNull : BOOLEAN,
             tokens : SeqUpTo(TokenInputs, MaxTokens)] :
        /\ ~in.scanErr => in.hasData
        /\ in.zeroNull => in.tokens = <<>>
        /\ (in.scanErr \/ ~in.unpackOk) => in.tokens = <<>>}

NodeInputs ==
    {[tag |-> "NULL", val |-> NullP, name |-> NullP, text |-> ""]}
    \cup [tag : {"T_ResTarget"}, val : {NullP, <<"1">>, <<"?">>},
          name : {NullP, <<"x">>, <<"My Col">>}, text : {""}]
    \cup [tag : {"T_RangeVar", "T_A_Const", "T_SelectStmt", "T_Integer"},
          val : {NullP}, name : {NullP}, text : {"t", "?"}]

DeparseNodeInputs == [unpackOk : BOOLEAN, nSub : 0..MaxSub, node : NodeInputs]

\* ---------------------------------------------------------- state machine
Init ==
    /\ call = "none"
    /\ input = [none |-> TRUE]
    /\ heap = {}
    /\ log = <<>>
    /\ ctx = {}
    /\ result = [none |-> TRUE]
    /\ phase = "idle"

\* One boundary call and its release: heap and log follow the blocks and the
\* events of this call alone (no component keeps state across calls).
Return(name, in, o) ==
    /\ call' = name
    /\ input' = in
    /\ heap' = o.m.heap
    /\ log' = o.m.log
    /\ ctx' = o.m.ctx
    /\ result' = o.r
    /\ phase' = "returned"

Release(m) ==
    /\ heap' = m.heap
    /\ log' = m.log
    /\ phase' = "released"
    /\ UNCHANGED <<call, input, ctx, result>>

Now == [heap |-> heap, log |-> log, ctx |-> ctx]

CallerBuffer == B("caller.data")

Call_protobuf_to_json ==
    /\ phase = "idle"
    /\ \E in \in ProtobufToJsonInputs :
          Return("protobuf_to_json", in, protobuf_to_json(Machine0, CallerBuffer, in))

Call_json_to_protobuf ==
    /\ phase = "idle"
    /\ \E in \in JsonToProtobufInputs :
          Return("json_to_protobuf", in, json_to_protobuf(Machine0, in))

Call_parse_sql ==
    /\ phase = "idle"
    /\ \E in \in ParseInputs :
          Return("parse_sql", in, parse_sql(Machine0, in))

Call_deparse_sql ==
    /\ phase = "idle"
    /\ \E in \in DeparseInputs :
          Return("deparse_sql", in, deparse_sql(Machine0, in))

Call_scan_sql ==
    /\ phase = "idle"
    /\ \E in \in ScanInputs :
          Return("scan_sql", in, scan_sql(Machine0, in))

Call_pg_query_deparse_node_protobuf ==
    /\ phase = "idle"
    /\ \E in \in DeparseNodeInputs :
          Return("pg_query_deparse_node_protobuf", in,
                 pg_query_deparse_node_protobuf(Machine0, in))

Call_free_protobuf_to_json_result ==
    /\ phase = "returned" /\ call = "protobuf_to_json"
    /\ Release(free_protobuf_to_json_result(Now, result))

Call_free_json_to_protobuf_result ==
    /\ phase = "returned" /\ call = "json_to_protobuf"
    /\ Release(free_json_to_protobuf_result(Now, result))

Call_free_parse_result ==
    /\ phase = "returned" /\ call = "parse_sql"
    /\ Release(free_parse_result(Now, result))

Call_free_deparse_result ==
    /\ phase = "returned" /\ call = "deparse_sql"
    /\ Release(free_deparse_result(Now, result))

Call_free_scan_result ==
    /\ phase = "returned" /\ call = "scan_sql"
    /\ Release(free_scan_result(Now, result))

\* The release of a by-value PgQueryDeparseResult of the single-node entry.
Call_pg_query_free_deparse_result ==
    /\ phase = "returned" /\ call = "pg_query_deparse_node_protobuf"
    /\ Release(pg_query_free_deparse_result(Now, result))

Next ==
    \/ Call_json_to_protobuf
    \/ Call_protobuf_to_json
    \/ Call_deparse_sql
    \/ Call_parse_sql
    \/ Call_scan_sql
    \/ Call_pg_query_deparse_node_protobuf
    \/ Call_free_protobuf_to_json_result
    \/ Call_free_json_to_protobuf_result
    \/ Call_free_parse_result
    \/ Call_free_deparse_result
    \/ Call_free_scan_result
    \/ Call_pg_query_free_deparse_result

Spec == Init /\ [][Next]_vars

\* ------------------------------------------------------------ properties
Returned(name) == call = name /\ phase = "returned"

Released(name) == call = name /\ phase = "released"

\* A field is populated when it points at a block the call left allocated.
Populated(p) == p \in heap

EngineInvoked == \E i \in 1..Len(log) : log[i][1] = "engine"

BridgeFailed(in) == ~in.unpackOk \/ in.codec # "ok"

\* C1: every PgQueryParseResult returned by parse_sql has exactly one of
\* parse_tree and error populated, the other being NULL.
C1_ExactlyOneOfTreeAndError ==
    Returned("parse_sql") =>
        \/ Populated(result.parse_tree) /\ result.error = NULL
        \/ result.parse_tree = NULL /\ Populated(result.error)

\* C2: protobuf_to_json and json_to_protobuf return a well-formed envelope:
\* on failure the error is set and the value is absent, on success the value
\* is set and the error is absent.
C2_WellFormedEnvelope ==
    /\ Returned("protobuf_to_json") =>
          IF BridgeFailed(input)
          THEN Populated(result.error) /\ result.json_string = NULL
          ELSE Populated(result.json_string) /\ result.error = NULL
    /\ Returned("json_to_protobuf") =>
          IF input.ret # "ok"
          THEN Populated(result.error) /\ result.data = NULL
          ELSE Populated(result.data) /\ result.error = NULL

\* A call of parse_sql, deparse_sql or scan_sql that failed in the engine
\* step or in the conversion/unpack step.
FailedCall ==
    \/ call = "parse_sql" /\ (input.engineErr \/ BridgeFailed(input))
    \/ call = "deparse_sql" /\ (input.ret # "ok" \/ input.engineErr)
    \/ call = "scan_sql" /\ (input.scanErr \/ ~input.unpackOk)

\* C4: after a failing parse_sql, deparse_sql or scan_sql, once the error
\* result has been released with its matching free function, no block
\* allocated during the call is still outstanding.
C4_NoLeakAfterFailedCall ==
    (phase = "released" /\ FailedCall) => heap = {}

\* C10: when protobuf_to_json or json_to_protobuf returns, the only blocks of
\* the call still outstanding are the result envelope and the value or error
\* it carries.
C10_BridgeLeavesOnlyEnvelope ==
    /\ Returned("protobuf_to_json") =>
          heap \subseteq {B("protobuf_to_json.result"), result.json_string, result.error}
    /\ Returned("json_to_protobuf") =>
          heap \subseteq {B("json_to_protobuf.result"), result.data, result.error}

\* What json_to_protobuf handed to deparse_sql for the current input.
Converted == json_to_protobuf(Machine0, input).r

\* C3: in deparse_sql, when json_to_protobuf reports an error the engine is
\* never invoked and the result has no query and an error whose message is
\* the converter's message; the engine runs only after a successful
\* conversion.
C3_NoEngineAfterFailedConversion ==
    Returned("deparse_sql") =>
        /\ (input.ret # "ok" \/ Converted.error # NULL) =>
              /\ ~EngineInvoked
              /\ result.query = NULL
              /\ Populated(result.error)
              /\ result.errf.message = Converted.error
        /\ input.ret # "ok" => result.errf.message = B("json_to_protobuf.error")
        /\ EngineInvoked => input.ret = "ok"

C3_Witness ==
    /\ Returned("deparse_sql")
    /\ input.ret # "ok"
    /\ result.errf.message = B("json_to_protobuf.error")
    /\ ~EngineInvoked

\* The name the static table gives a token code.
TokenName(code) == IF code \in DOMAIN TokenNames THEN TokenNames[code] ELSE "UNKNOWN"

\* C5: when the tokenizer succeeds and its stream unpacks, scan_sql returns
\* no error, n_tokens is the length of the stream, and output token i carries
\* start, end and keyword_kind of stream token i and its table name (or
\* "UNKNOWN"); an empty stream gives zero tokens and no error.
C5_ScanTokensInOrder ==
    (Returned("scan_sql") /\ ~input.scanErr /\ input.unpackOk) =>
        /\ result.error = NULL
        /\ result.n_tokens = Len(input.tokens)
        /\ Len(result.toks) = Len(input.tokens)
        /\ \A i \in 1..Len(input.tokens) :
              /\ result.toks[i].start = input.tokens[i].start
              /\ result.toks[i].end = input.tokens[i].end
              /\ result.toks[i].keyword_kind = input.tokens[i].keyword_kind
              /\ result.toks[i].name = TokenName(input.tokens[i].token)
        /\ input.tokens = <<>> => result.n_tokens = 0 /\ result.toks = <<>>

C5_Witness ==
    /\ Returned("scan_sql") /\ ~input.scanErr /\ input.unpackOk
    /\ result.n_tokens = 2
    /\ result.toks[1] # result.toks[2]
    /\ result.toks[1].name = "IDENT"
    /\ result.toks[2].name = "UNKNOWN"

\* A ResTarget node whose value, when present, is one deparseExpr renders.
RenderableResTarget ==
    /\ input.unpackOk
    /\ input.node.tag = "T_ResTarget"
    /\ input.node.val # NullP => input.node.val[1] \notin BadExprs

\* C6: for a ResTarget node deparseNode appends "value AS name" (name quoted)
\* when both are present, the value alone when name is absent, the quoted
\* name alone when value is absent, and nothing when both are absent.
C6_ResTargetRendering ==
    (Returned("pg_query_deparse_node_protobuf") /\ RenderableResTarget) =>
        LET val == input.node.val
            name == input.node.name
            quoted(n) == IF n = "x" THEN "x" ELSE "\"" \o n \o "\""
        IN  /\ result.error = NULL
            /\ (val # NullP /\ name # NullP) =>
                   result.text = val[1] \o " AS " \o quoted(name[1])
            /\ (val # NullP /\ name = NullP) => result.text = val[1]
            /\ (val = NullP /\ name # NullP) => result.text = quoted(name[1])
            /\ (val = NullP /\ name = NullP) => result.text = ""
            /\ (val = <<"1">> /\ name = <<"x">>) => result.text = "1 AS x"

C6_Witness ==
    /\ Returned("pg_query_deparse_node_protobuf") /\ RenderableResTarget
    /\ input.node.val = <<"1">> /\ input.node.name = <<"x">>
    /\ result.text = "1 AS x"

\* Whether a fatal condition is raised while the single-node entry runs.
Raises(in) ==
    \/ ~in.unpackOk
    \/ in.node.tag = "NULL"
    \/ in.node.tag = "T_ResTarget" /\ in.node.val # NullP /\ in.node.val[1] \in BadExprs
    \/ in.node.tag \in ExprTags /\ in.node.text \in BadExprs
    \/ in.node.tag \notin ({"T_ResTarget"} \cup ClauseTags \cup ExprTags \cup StmtTags)

\* C7: a fatal condition raised while pg_query_deparse_node_protobuf runs is
\* returned as a result with error populated and query absent; a call that
\* raises nothing returns query populated and error absent.
C7_FatalBecomesError ==
    Returned("pg_query_deparse_node_protobuf") =>
        IF Raises(input)
        THEN /\ Populated(result.error)
             /\ Populated(result.errf.message)
             /\ result.message # ""
             /\ result.query = NULL
        ELSE /\ Populated(result.query)
             /\ result.error = NULL

C7_Witness ==
    /\ Returned("pg_query_deparse_node_protobuf")
    /\ input.unpackOk /\ input.node.tag = "T_Integer"
    /\ Populated(result.error)
    /\ result.message = "deparse: unsupported top-level node type"

\* The strings reachable from a returned PgQueryDeparseResult.
ResultStrings ==
    {result.query, result.errf.message, result.errf.filename, result.errf.funcname} \ {NULL}

\* C8: the memory context is entered exactly once, first, and exited exactly
\* once, last, and every string reachable from the returned result was copied
\* to the general heap before that exit: nothing in the result points into
\* the torn-down context.
C8_ContextScopedAndCopiedOut ==
    Returned("pg_query_deparse_node_protobuf") =>
        /\ Count(log, <<"enter", CTX>>) = 1 /\ log[1] = <<"enter", CTX>>
        /\ Count(log, <<"exit", CTX>>) = 1 /\ log[Len(log)] = <<"exit", CTX>>
        /\ \A i \in 1..Len(log) :
              (log[i][1] = "read" /\ log[i][2] \in ctx) =>
                  i < FirstIndex(log, <<"exit", CTX>>)
        /\ \A p \in ResultStrings \cup ({result.error} \ {NULL}) :
              /\ p \in heap /\ p \notin ctx
              /\ FirstIndex(log, <<"malloc", p>>) \in 1..(FirstIndex(log, <<"exit", CTX>>) - 1)

C8_Witness ==
    /\ Returned("pg_query_deparse_node_protobuf")
    /\ Populated(result.errf.filename)
    /\ B("error_data.filename") \in ctx
    /\ log[Len(log)] = <<"exit", CTX>>

\* Events of parse_sql's log that touch the tree buffer.
TreeData == B("parse_tree.data")

\* C9: parse_sql frees the tree buffer exactly once: on an engine error
\* before returning, otherwise right after protobuf_to_json returns, whatever
\* its outcome; the buffer is never read after the free and is no part of the
\* returned result.
C9_TreeBufferFreedOnce ==
    (Returned("parse_sql") /\ input.hasData) =>
        LET f == FirstIndex(log, <<"free", TreeData>>)
        IN  /\ Count(log, <<"free", TreeData>>) = 1
            /\ TreeData \notin heap
            /\ \A i \in 1..Len(log) :
                  (log[i][2] = TreeData /\ log[i][1] # "free") => i < f
            /\ TreeData \notin {result.parse_tree, result.error, result.stderr_buffer,
                                result.errf.message}
            /\ ~input.engineErr =>
                  /\ FirstIndex(log, <<"malloc", B("protobuf_to_json.result")>>) \in 1..(f - 1)
                  /\ \A i \in (f + 1)..Len(log) :
                        /\ log[i][1] = "malloc" => log[i][2] = B("parse_sql.error")
                        /\ log[i][1] # "read"

C9_Witness ==
    /\ Returned("parse_sql") /\ ~input.engineErr /\ BridgeFailed(input)
    /\ Count(log, <<"free", TreeData>>) = 1
    /\ Populated(result.error)

====
